---- MODULE Spec2Model ----
(***************************************************************************)
(* Size recommendation service: config.get_size_chart (an lru_cache over   *)
(* the chart files) and main.recommend_size / main.get_chart_details.      *)
(*                                                                         *)
(* Measurements are fixed-point numbers in thousandths of a centimetre     *)
(* (1.0 cm = 1000), so that rounding to 2 decimals is rounding to a        *)
(* multiple of 10.                                                         *)
(***************************************************************************)
EXTENDS Integers, Sequences, FiniteSets, TLC

VARIABLES
    files,      \* tracked key -> what CHARTS_DIR/<key>.json holds now
    cache,      \* the lru_cache of get_size_chart: <<[key, val]>>, least recently used first
    pc,         \* thread -> position in its request handler
    endpoint,   \* thread -> "recommend" (/recommend-size) or "charts" (/charts/{chart_key})
    key,        \* thread -> chart_key of the request
    value,      \* thread -> value of the request
    fit,        \* thread -> fit of the request ("absent" when the query has none)
    ret,        \* thread -> what get_size_chart computed / returned
    resp,       \* thread -> the HTTP response
    fromDisk,   \* history: thread -> its current get_size_chart call opened the file
    fileAtCall, \* history: thread -> the file of its key when the call began; "changed" once it was rewritten during the call
    prev,       \* history: thread -> lastRet of its key when the call began
    others,     \* history: thread -> number of distinct other keys asked for since key's last use, when the call began
    lastRet,    \* history: tracked key -> what get_size_chart(key) last returned from the cache or stored in it
    since,      \* history: tracked key -> the distinct other keys asked for since its last use
    writes,     \* history: number of rewrites of chart files so far
    asked       \* history: number of filler keys asked for so far

vars == <<files, cache, pc, endpoint, key, value, fit, ret, resp,
          fromDisk, fileAtCall, prev, others, lastRet, since, writes, asked>>

---------------------------------------------------------------------------
(* Bounds of the model *)

NumThreads == 2          \* worker threads serving requests concurrently
NumTracked == 1          \* keys whose files take every state and may be rewritten
NumFillers == 129        \* further keys, each asked for once, that fill the cache
MaxRanges == 2           \* ranges per chart
MaxWrites == 1           \* rewrites of chart files during a run

(* Program constants *)

maxsize == 128                  \* @lru_cache(maxsize=128)
FIT_ADJUSTMENT_SLIM == -1000    \* -1.0
FIT_ADJUSTMENT_REGULAR == 0     \* 0.0
FIT_ADJUSTMENT_LOOSE == 1000    \* 1.0

Threads == 1..NumThreads
Tracked == 1..NumTracked
Fillers == (NumTracked + 1)..(NumTracked + NumFillers)
Keys == Tracked \cup Fillers

---------------------------------------------------------------------------
(* Chart documents: what json.load returns for a chart file.  A document   *)
(* is a JSON object; `fields` are the keys it has. A range is a JSON       *)
(* object with "size" and optionally "min" and "max".                      *)

Labels == <<"S", "M", "L", "XL">>
MinVals == {0, 10, 20}
MaxVals == {10, 20}

RangeShapes ==
    [hasMin : BOOLEAN, min : MinVals \cup {0}, hasMax : BOOLEAN, max : MaxVals \cup {0}]

\* the shapes with absent fields normalised (an absent field holds 0)
Shapes ==
    {s \in RangeShapes : /\ IF s.hasMin THEN s.min \in MinVals ELSE s.min = 0
                         /\ IF s.hasMax THEN s.max \in MaxVals ELSE s.max = 0}

MkRange(s, i) ==
    [size |-> Labels[i], hasMin |-> s.hasMin, min |-> s.min,
     hasMax |-> s.hasMax, max |-> s.max]

RangeSeqs ==
    UNION {{[i \in 1..n |-> MkRange(f[i], i)] : f \in [1..n -> Shapes]} : n \in 0..MaxRanges}

Doc(fs, rs, nm, un) == [fields |-> fs, ranges |-> rs, name |-> nm, unit |-> un]

EmptyDoc == Doc({}, <<>>, "", "")

\* charts with every field, over all range sequences
FullDocs == {Doc({"ranges", "name", "unit"}, rs, "Guide", "in") : rs \in RangeSeqs}

OneRange == <<[size |-> "S", hasMin |-> TRUE, min |-> 0, hasMax |-> TRUE, max |-> 10]>>

\* documents lacking fields
SparseDocs ==
    { EmptyDoc,
      Doc({"name"}, <<>>, "Guide", ""),
      Doc({"unit"}, <<>>, "", "in"),
      Doc({"name", "unit"}, <<>>, "Guide", "in"),
      Doc({"ranges"}, <<>>, "", ""),
      Doc({"ranges"}, OneRange, "", ""),
      Doc({"ranges", "unit"}, OneRange, "", "in") }

Docs == FullDocs \cup SparseDocs

Missing == [kind |-> "missing", doc |-> EmptyDoc]
Malformed == [kind |-> "malformed", doc |-> EmptyDoc]
Json(d) == [kind |-> "json", doc |-> d]
Changed == [kind |-> "changed", doc |-> EmptyDoc]

\* the file of a filler key never changes
FillerFile == Json(Doc({"ranges"}, OneRange, "", ""))

\* what CHARTS_DIR/<k>.json holds
FileOf(k) == IF k \in Tracked THEN files[k] ELSE FillerFile

None == [kind |-> "none", doc |-> EmptyDoc]
Dict(d) == [kind |-> "dict", doc |-> d]
NoCall == [kind |-> "nocall", doc |-> EmptyDoc]

---------------------------------------------------------------------------
(* config.get_size_chart *)

\* open + json.load of the chart file: the document, or None on
\* FileNotFoundError / JSONDecodeError
ReadChart(f) == IF f.kind = "json" THEN Dict(f.doc) ELSE None

CacheKeys(c) == {c[i].key : i \in 1..Len(c)}

CacheIndex(c, k) == CHOOSE i \in 1..Len(c) : c[i].key = k

Remove(c, i) == SubSeq(c, 1, i - 1) \o SubSeq(c, i + 1, Len(c))

\* a hit moves the entry to the most recently used end
Touch(c, k) == Remove(c, CacheIndex(c, k)) \o <<c[CacheIndex(c, k)]>>

\* variant: the cache counts as full one entry early
Insert_EvictsEarly(c, k, v) ==
    IF k \in CacheKeys(c) THEN c
    ELSE IF Len(c) >= maxsize - 1 THEN Tail(c) \o <<[key |-> k, val |-> v]>>
    ELSE c \o <<[key |-> k, val |-> v]>>

\* variant: the store does not look whether the key was added meanwhile
Insert_NoRecheck(c, k, v) ==
    IF Len(c) >= maxsize THEN Tail(c) \o <<[key |-> k, val |-> v]>>
    ELSE c \o <<[key |-> k, val |-> v]>>

\* after the call: nothing if the key was added meanwhile; else append,
\* dropping the least recently used entry when the cache is full
Insert(c, k, v) ==
    IF k \in CacheKeys(c) THEN c
    ELSE IF Len(c) >= maxsize THEN Tail(c) \o <<[key |-> k, val |-> v]>>
    ELSE c \o <<[key |-> k, val |-> v]>>

---------------------------------------------------------------------------
(* main.recommend_size *)

Fits == {"slim", "regular", "loose"}

\* fit: FitType = Query(FitType.regular)
FitOrDefault(f) == IF f = "absent" THEN "regular" ELSE f

\* fit_adjustments[fit.value]
FitAdjustment(f) ==
    CASE f = "slim" -> FIT_ADJUSTMENT_SLIM
      [] f = "regular" -> FIT_ADJUSTMENT_REGULAR
      [] f = "loose" -> FIT_ADJUSTMENT_LOOSE

\* `not size_chart`: None and the empty dict are falsy
Falsy(r) == r.kind = "none" \/ r.doc.fields = {}

\* size_chart.get("ranges", [])
GetRanges(d) == IF "ranges" \in d.fields THEN d.ranges ELSE <<>>
\* size_chart.get("unit", "cm")
GetUnit(d) == IF "unit" \in d.fields THEN d.unit ELSE "cm"
\* size_chart.get("name", chart_key)
GetName(d, k) == IF "name" \in d.fields THEN [isKey |-> FALSE, text |-> d.name, key |-> 0]
                 ELSE [isKey |-> TRUE, text |-> "", key |-> k]

Abs(x) == IF x < 0 THEN -x ELSE x
Min2(a, b) == IF a <= b THEN a ELSE b

\* r.get("min", 0)
GetMin(r) == IF r.hasMin THEN r.min ELSE 0

\* variant: the upper bound exclusive
InRange_ExclusiveMax(r, t) == GetMin(r) <= t /\ (r.hasMax => t < r.max)

\* r.get("min", 0) <= target_measurement <= r.get("max", float('inf'))
InRange(r, t) == GetMin(r) <= t /\ (r.hasMax => t <= r.max)

\* the for loop: index of the first range holding t, 0 when there is none
RECURSIVE FirstMatch(_, _, _)
FirstMatch(rs, t, i) ==
    IF i > Len(rs) THEN 0
    ELSE IF InRange(rs[i], t) THEN i
    ELSE FirstMatch(rs, t, i + 1)

\* r.get("max", 0) of the closest-range key
GetMaxOrZero(r) == IF r.hasMax THEN r.max ELSE 0

\* key=lambda r: min(abs(t - r.get("min", 0)), abs(t - r.get("max", 0)))
DistanceKey(r, t) == Min2(Abs(t - GetMin(r)), Abs(t - GetMaxOrZero(r)))

\* variant: a later element also replaces the best on an equal key
Better_LastWins(k, bestKey) == k <= bestKey

\* min(ranges, key=...): a later element replaces the best only when its key is smaller
Better(k, bestKey) == k < bestKey

RECURSIVE MinScan(_, _, _, _)
MinScan(rs, t, i, best) ==
    IF i > Len(rs) THEN best
    ELSE IF Better(DistanceKey(rs[i], t), DistanceKey(rs[best], t))
         THEN MinScan(rs, t, i + 1, i)
    ELSE MinScan(rs, t, i + 1, best)

ClosestRange(rs, t) == MinScan(rs, t, 2, 1)

\* round(target_measurement, 2): the nearest multiple of 0.01; a decimal tie
\* goes to either neighbour, as the binary value of the float decides
Round2(t) ==
    IF t % 10 = 5 THEN {t - 5, t + 5}
    ELSE IF t % 10 < 5 THEN {t - (t % 10)}
    ELSE {t - (t % 10) + 10}

---------------------------------------------------------------------------
(* HTTP responses *)

NoName == [isKey |-> FALSE, text |-> "", key |-> 0]

NoResp ==
    [status |-> 0, size |-> "", target |-> 0, unit |-> "", mode |-> "",
     key |-> 0, name |-> NoName, body |-> EmptyDoc]

\* variant: the detail does not name the chart_key
HttpError_NoKey(status, k) == [NoResp EXCEPT !.status = status]

\* HTTPException(status_code, detail=f"... {chart_key}")
HttpError(status, k) == [NoResp EXCEPT !.status = status, !.key = k]

\* the 422 of the framework's validation of the query parameters
ValidationError == [NoResp EXCEPT !.status = 422]

\* RecommendationResponse(...)
Recommendation(r, tm, d, m, k) ==
    [status |-> 200, size |-> r.size, target |-> tm, unit |-> GetUnit(d),
     mode |-> m, key |-> k, name |-> GetName(d, k), body |-> EmptyDoc]

\* JSONResponse(content=chart)
ChartResponse(d, k) == [NoResp EXCEPT !.status = 200, !.key = k, !.body = d]

\* variant: Query(..., ge=0)
ValidValue_Ge(v) == v >= 0

\* Query(..., gt=0)
ValidValue(v) == v > 0

\* variant: the target is rounded before the ranges are searched
RecommendResponses_RoundFirst(r, k, v, f) ==
    LET t == v + FitAdjustment(FitOrDefault(f))
        rs == GetRanges(r.doc)
    IN  IF Falsy(r) THEN {HttpError(404, k)}
        ELSE IF rs = <<>> THEN {HttpError(500, k)}
        ELSE {IF FirstMatch(rs, tm, 1) # 0
              THEN Recommendation(rs[FirstMatch(rs, tm, 1)], tm, r.doc, "in-range", k)
              ELSE Recommendation(rs[ClosestRange(rs, tm)], tm, r.doc, "closest", k) :
                  tm \in Round2(t)}

\* what the handler answers once get_size_chart has returned r
RecommendResponses(r, k, v, f) ==
    LET t == v + FitAdjustment(FitOrDefault(f))
        rs == GetRanges(r.doc)
        i == FirstMatch(rs, t, 1)
    IN  IF Falsy(r) THEN {HttpError(404, k)}
        ELSE IF rs = <<>> THEN {HttpError(500, k)}
        ELSE IF i # 0
             THEN {Recommendation(rs[i], tm, r.doc, "in-range", k) : tm \in Round2(t)}
        ELSE {Recommendation(rs[ClosestRange(rs, t)], tm, r.doc, "closest", k) :
                  tm \in Round2(t)}

ChartDetailsResponse(r, k) ==
    IF Falsy(r) THEN HttpError(404, k) ELSE ChartResponse(r.doc, k)

---------------------------------------------------------------------------
(* Initial state: the process has started, nothing is cached, no request   *)
(* is being served.                                                        *)

InitProcess ==
    /\ cache = <<>>
    /\ pc = [t \in Threads |-> "idle"]
    /\ endpoint = [t \in Threads |-> "none"]
    /\ key = [t \in Threads |-> 0]
    /\ value = [t \in Threads |-> 0]
    /\ fit = [t \in Threads |-> "absent"]
    /\ ret = [t \in Threads |-> NoCall]
    /\ resp = [t \in Threads |-> NoResp]
    /\ fromDisk = [t \in Threads |-> FALSE]
    /\ fileAtCall = [t \in Threads |-> Missing]
    /\ prev = [t \in Threads |-> NoCall]
    /\ others = [t \in Threads |-> 0]
    /\ lastRet = [k \in Tracked |-> NoCall]
    /\ since = [k \in Tracked |-> {}]
    /\ writes = 0
    /\ asked = 0

history == <<fromDisk, fileAtCall, prev, others, lastRet, since>>

---------------------------------------------------------------------------
(* Requests *)

FitInputs == Fits \cup {"absent", "tight"}

\* GET /recommend-size?chart_key=k&value=v&fit=f : the framework validates
\* the query (value > 0, fit one of the enum or absent) before the handler runs
RecommendRequest(t, k, v, f) ==
    /\ pc[t] = "idle"
    /\ endpoint' = [endpoint EXCEPT ![t] = "recommend"]
    /\ key' = [key EXCEPT ![t] = k]
    /\ value' = [value EXCEPT ![t] = v]
    /\ fit' = [fit EXCEPT ![t] = f]
    /\ IF ValidValue(v) /\ f # "tight"
       THEN /\ pc' = [pc EXCEPT ![t] = "call"]
            /\ resp' = resp
       ELSE /\ pc' = [pc EXCEPT ![t] = "done"]
            /\ resp' = [resp EXCEPT ![t] = ValidationError]
    /\ UNCHANGED <<files, cache, ret, history, writes, asked>>

\* GET /charts/{chart_key}
ChartsRequest(t, k) ==
    /\ pc[t] = "idle"
    /\ endpoint' = [endpoint EXCEPT ![t] = "charts"]
    /\ key' = [key EXCEPT ![t] = k]
    /\ pc' = [pc EXCEPT ![t] = "call"]
    /\ asked' = IF k \in Fillers THEN asked + 1 ELSE asked
    /\ UNCHANGED <<files, cache, value, fit, ret, resp, history, writes>>

\* history: key k is used; every other tracked key has seen k since its own last use
Used(k) == [j \in Tracked |-> IF j = k THEN {} ELSE since[j] \cup {k}]
Seen(k) == [j \in Tracked |-> IF j = k THEN since[j] ELSE since[j] \cup {k}]
Returned(k, r) == [j \in Tracked |-> IF j = k THEN r ELSE lastRet[j]]

\* get_size_chart(chart_key): the lru_cache wrapper looks the key up; a hit
\* returns the cached value and makes the entry the most recent one
CacheLookup(t) ==
    /\ pc[t] = "call"
    /\ IF key[t] \in CacheKeys(cache)
       THEN /\ ret' = [ret EXCEPT ![t] = cache[CacheIndex(cache, key[t])].val]
            /\ cache' = Touch(cache, key[t])
            /\ pc' = [pc EXCEPT ![t] = "check"]
            /\ lastRet' = Returned(key[t], cache[CacheIndex(cache, key[t])].val)
       ELSE /\ pc' = [pc EXCEPT ![t] = "load"]
            /\ UNCHANGED <<ret, cache, lastRet>>
    /\ fromDisk' = [fromDisk EXCEPT ![t] = FALSE]
    /\ fileAtCall' = [fileAtCall EXCEPT ![t] = FileOf(key[t])]
    /\ prev' = [prev EXCEPT ![t] = IF key[t] \in Tracked THEN lastRet[key[t]] ELSE NoCall]
    /\ others' = [others EXCEPT ![t] =
                     IF key[t] \in Tracked THEN Cardinality(since[key[t]]) ELSE 0]
    /\ since' = Used(key[t])
    /\ UNCHANGED <<files, endpoint, key, value, fit, resp, writes, asked>>

\* the miss: the wrapped function opens and parses the file, outside any lock
LoadFile(t) ==
    /\ pc[t] = "load"
    /\ ret' = [ret EXCEPT ![t] = ReadChart(FileOf(key[t]))]
    /\ fromDisk' = [fromDisk EXCEPT ![t] = TRUE]
    /\ pc' = [pc EXCEPT ![t] = "store"]
    /\ UNCHANGED <<files, cache, endpoint, key, value, fit, resp,
                   fileAtCall, prev, others, lastRet, since, writes, asked>>

\* the wrapper stores the result and returns it
CacheStore(t) ==
    /\ pc[t] = "store"
    /\ cache' = Insert(cache, key[t], ret[t])
    /\ pc' = [pc EXCEPT ![t] = "check"]
    /\ lastRet' = IF key[t] \in CacheKeys(cache) THEN lastRet ELSE Returned(key[t], ret[t])
    /\ since' = Seen(key[t])
    /\ UNCHANGED <<files, endpoint, key, value, fit, ret, resp,
                   fromDisk, fileAtCall, prev, others, writes, asked>>

\* recommend_size after get_size_chart has returned
RecommendSize(t) ==
    /\ pc[t] = "check"
    /\ endpoint[t] = "recommend"
    /\ \E r \in RecommendResponses(ret[t], key[t], value[t], fit[t]) :
           resp' = [resp EXCEPT ![t] = r]
    /\ pc' = [pc EXCEPT ![t] = "done"]
    /\ UNCHANGED <<files, cache, endpoint, key, value, fit, ret, history, writes, asked>>

\* get_chart_details after get_size_chart has returned
GetChartDetails(t) ==
    /\ pc[t] = "check"
    /\ endpoint[t] = "charts"
    /\ resp' = [resp EXCEPT ![t] = ChartDetailsResponse(ret[t], key[t])]
    /\ pc' = [pc EXCEPT ![t] = "done"]
    /\ UNCHANGED <<files, cache, endpoint, key, value, fit, ret, history, writes, asked>>

\* the response is sent; the thread is free for the next request
Deliver(t) ==
    /\ pc[t] = "done"
    /\ pc' = [pc EXCEPT ![t] = "idle"]
    /\ endpoint' = [endpoint EXCEPT ![t] = "none"]
    /\ key' = [key EXCEPT ![t] = 0]
    /\ value' = [value EXCEPT ![t] = 0]
    /\ fit' = [fit EXCEPT ![t] = "absent"]
    /\ ret' = [ret EXCEPT ![t] = NoCall]
    /\ resp' = [resp EXCEPT ![t] = NoResp]
    /\ fromDisk' = [fromDisk EXCEPT ![t] = FALSE]
    /\ fileAtCall' = [fileAtCall EXCEPT ![t] = Missing]
    /\ prev' = [prev EXCEPT ![t] = NoCall]
    /\ others' = [others EXCEPT ![t] = 0]
    /\ UNCHANGED <<files, cache, lastRet, since, writes, asked>>

\* the environment: somebody rewrites, creates or deletes a chart file
ModifyFile(k, f) ==
    /\ writes < MaxWrites
    /\ f # files[k]
    /\ files' = [files EXCEPT ![k] = f]
    /\ writes' = writes + 1
    /\ fileAtCall' = [t \in Threads |->
                         IF key[t] = k /\ pc[t] \in {"load", "store", "check"}
                         THEN Changed ELSE fileAtCall[t]]
    /\ UNCHANGED <<cache, pc, endpoint, key, value, fit, ret, resp,
                   fromDisk, prev, others, lastRet, since, asked>>

---------------------------------------------------------------------------
(* Specification of /recommend-size over every chart document: one thread, *)
(* one key, the file fixed.                                                *)

Targets == {-4, 0, 5, 6, 10, 14, 15, 20, 24}

\* values that reach every target under the regular and the slim fit, and
\* values the validation rejects
Values == Targets \cup {t - FIT_ADJUSTMENT_SLIM : t \in Targets}

FileStates == {Missing, Malformed} \cup {Json(d) : d \in Docs}

InitResolve ==
    /\ InitProcess
    /\ \E f \in FileStates :
           files = [k \in Tracked |-> IF k = 1 THEN f ELSE Missing]

NextResolve ==
    \/ \E v \in Values, f \in FitInputs : RecommendRequest(1, 1, v, f)
    \/ CacheLookup(1)
    \/ LoadFile(1)
    \/ CacheStore(1)
    \/ RecommendSize(1)
    \/ Deliver(1)

SpecResolve == InitResolve /\ [][NextResolve]_vars

---------------------------------------------------------------------------
(* Specification of concurrent first access to the chart store: every     *)
(* thread serves /charts/{chart_key} requests for the tracked keys; the    *)
(* chart files do not change.                                              *)

DocA == Doc({"ranges", "name", "unit"}, OneRange, "Guide A", "cm")
DocB == Doc({"ranges"}, <<>>, "", "")

StoreFiles == {Missing, Malformed, Json(DocA), Json(DocB)}

Init ==
    /\ InitProcess
    /\ files \in [Tracked -> StoreFiles]

NextRace ==
    \E t \in Threads :
        \/ \E k \in Tracked : ChartsRequest(t, k)
        \/ CacheLookup(t)
        \/ LoadFile(t)
        \/ CacheStore(t)
        \/ GetChartDetails(t)
        \/ Deliver(t)

SpecRace == Init /\ [][NextRace]_vars

---------------------------------------------------------------------------
(* Specification of the chart store while files change: every thread       *)
(* serves /charts/{chart_key} requests for the tracked keys, and chart     *)
(* files are created, deleted and rewritten.                               *)

Next ==
    \/ \E t \in Threads :
           \/ \E k \in Tracked : ChartsRequest(t, k)
           \/ CacheLookup(t)
           \/ LoadFile(t)
           \/ CacheStore(t)
           \/ GetChartDetails(t)
           \/ Deliver(t)
    \/ \E k \in Tracked, f \in StoreFiles : ModifyFile(k, f)

Spec == Init /\ [][Next]_vars

---------------------------------------------------------------------------
(* Specification of the chart store as it fills: one thread serves         *)
(* /charts/{chart_key} requests for key 1 and for ever new filler keys,    *)
(* while the chart file of key 1 is rewritten.                             *)

\* the filler key not asked for yet, while there is one
NextFiller == {NumTracked + asked + 1} \cap Fillers

CacheFiles == {Json(DocA), Json(DocB)}

InitCache ==
    /\ InitProcess
    /\ files = [k \in Tracked |-> IF k = 1 THEN Json(DocA) ELSE Missing]

NextCache ==
    \/ \E k \in {1} \cup NextFiller : ChartsRequest(1, k)
    \/ CacheLookup(1)
    \/ LoadFile(1)
    \/ CacheStore(1)
    \/ GetChartDetails(1)
    \/ Deliver(1)
    \/ \E f \in CacheFiles : ModifyFile(1, f)

SpecCache == InitCache /\ [][NextCache]_vars

---------------------------------------------------------------------------
(* Vocabulary of the claims about /recommend-size *)

\* thread t has answered a /recommend-size request that passed validation
Answered(t) == pc[t] = "done" /\ endpoint[t] = "recommend" /\ resp[t].status # 422

\* the adjusted target of thread t's request: value + table[fit], fit defaulting to regular
AdjustedTarget(t) ==
    value[t] + (CASE fit[t] = "slim" -> FIT_ADJUSTMENT_SLIM
                  [] fit[t] = "loose" -> FIT_ADJUSTMENT_LOOSE
                  [] OTHER -> FIT_ADJUSTMENT_REGULAR)

\* the ranges of the chart the handler of thread t got
ChartRanges(t) == IF "ranges" \in ret[t].doc.fields THEN ret[t].doc.ranges ELSE <<>>

HasRanges(t) == ret[t].kind = "dict" /\ ChartRanges(t) # <<>>

\* r holds x: both bounds inclusive, absent min taken as 0, absent max as +infinity
Contains(r, x) == (IF r.hasMin THEN r.min ELSE 0) <= x /\ (r.hasMax => x <= r.max)

Holders(t) == {i \in 1..Len(ChartRanges(t)) : Contains(ChartRanges(t)[i], AdjustedTarget(t))}

\* boundary distance min(|x - min|, |x - max|), absent min 0, absent max +infinity
BoundaryDistance(r, x) ==
    LET lo == Abs(x - (IF r.hasMin THEN r.min ELSE 0))
    IN  IF r.hasMax /\ Abs(x - r.max) < lo THEN Abs(x - r.max) ELSE lo

\* the ranges at minimal boundary distance from the target
Nearest(t) ==
    {i \in 1..Len(ChartRanges(t)) :
        \A j \in 1..Len(ChartRanges(t)) :
            BoundaryDistance(ChartRanges(t)[i], AdjustedTarget(t))
                <= BoundaryDistance(ChartRanges(t)[j], AdjustedTarget(t))}

Lowest(S) == CHOOSE i \in S : \A j \in S : i <= j

ExplicitBounds(t) ==
    \A i \in 1..Len(ChartRanges(t)) : ChartRanges(t)[i].hasMin /\ ChartRanges(t)[i].hasMax

---------------------------------------------------------------------------
\* C1: when some range holds the adjusted target (bounds inclusive, absent
\* min 0, absent max +infinity), the answer is mode "in-range" with the label
\* of the first such range in stored order, also for overlapping or unsorted ranges.
C1_FirstMatchWins ==
    \A t \in Threads :
        (Answered(t) /\ HasRanges(t) /\ Holders(t) # {})
            => /\ resp[t].status = 200
               /\ resp[t].mode = "in-range"
               /\ resp[t].size = ChartRanges(t)[Lowest(Holders(t))].size

\* C1 witness: two overlapping ranges hold the target, the first one starts
\* higher than the second and has no max, and the first one is answered.
C1_Witness ==
    \E t \in Threads :
        /\ Answered(t) /\ HasRanges(t)
        /\ Holders(t) = {1, 2}
        /\ ~ChartRanges(t)[1].hasMax
        /\ ChartRanges(t)[1].hasMin /\ ChartRanges(t)[2].hasMin
        /\ ChartRanges(t)[1].min > ChartRanges(t)[2].min
        /\ resp[t].mode = "in-range"
        /\ resp[t].size = ChartRanges(t)[1].size

\* C2: when no range holds the adjusted target, the answer is mode "closest"
\* with the label of a range at minimal boundary distance, an absent max
\* counting as +infinity.
C2_ClosestMinimisesDistance ==
    \A t \in Threads :
        (Answered(t) /\ HasRanges(t) /\ Holders(t) = {})
            => /\ resp[t].status = 200
               /\ resp[t].mode = "closest"
               /\ \E i \in Nearest(t) : resp[t].size = ChartRanges(t)[i].size

\* C3: in the closest case, when every range has explicit min and max, the
\* earliest range among those at minimal boundary distance is answered.
C3_ClosestTieFirst ==
    \A t \in Threads :
        (Answered(t) /\ HasRanges(t) /\ Holders(t) = {} /\ ExplicitBounds(t))
            => /\ resp[t].mode = "closest"
               /\ resp[t].size = ChartRanges(t)[Lowest(Nearest(t))].size

\* C3 witness: the target lies between two ranges, exactly equidistant from
\* the max of the first and the min of the second, and the first is answered.
C3_Witness ==
    \E t \in Threads :
        /\ Answered(t) /\ HasRanges(t) /\ Holders(t) = {} /\ ExplicitBounds(t)
        /\ Nearest(t) = {1, 2}
        /\ ChartRanges(t)[1].max < AdjustedTarget(t)
        /\ AdjustedTarget(t) < ChartRanges(t)[2].min
        /\ resp[t].mode = "closest"
        /\ resp[t].size = ChartRanges(t)[1].size

\* C6: a chart file that exists and parses, with empty or absent ranges, is
\* answered with status 500, never 404 and never a size, whatever other
\* fields the document has or lacks.
C6_EmptyChartIs500 ==
    \A t \in Threads :
        (/\ Answered(t)
         /\ files[key[t]].kind = "json"
         /\ ("ranges" \notin files[key[t]].doc.fields \/ files[key[t]].doc.ranges = <<>>))
            => resp[t].status = 500 /\ resp[t].size = ""

\* C7: a chart file that is missing or does not parse is answered with
\* status 404 and a message holding the chart_key, the same in both cases,
\* and no size.
C7_MissingOrMalformedIs404 ==
    \A t \in Threads :
        (Answered(t) /\ files[key[t]].kind \in {"missing", "malformed"})
            => /\ resp[t].status = 404
               /\ resp[t].key = key[t]
               /\ resp[t].size = "" /\ resp[t].mode = ""

\* C7 witness: a request for a key whose file does not parse was answered 404
\* after the file was read.
C7_Witness ==
    \E t \in Threads :
        /\ Answered(t) /\ files[key[t]] = Malformed /\ fromDisk[t]
        /\ resp[t].status = 404 /\ resp[t].key = key[t]

\* C8: a /recommend-size request whose value is not > 0 is rejected with a
\* 4xx and never gets a recommendation, whatever the chart file and the fit.
C8_NonPositiveValueRejected ==
    \A t \in Threads :
        (pc[t] # "idle" /\ endpoint[t] = "recommend" /\ value[t] <= 0)
            => /\ pc[t] = "done"
               /\ resp[t].status \in 400..499
               /\ resp[t].size = "" /\ resp[t].mode = ""

\* C8 witness: value 0 with the loose fit (adjusted target 1.0) on a chart
\* whose open-ended range would hold it was rejected.
C8_Witness ==
    \E t \in Threads :
        /\ pc[t] = "done" /\ endpoint[t] = "recommend"
        /\ value[t] = 0 /\ fit[t] = "loose"
        /\ files[key[t]].kind = "json"
        /\ \E i \in 1..Len(files[key[t]].doc.ranges) :
               Contains(files[key[t]].doc.ranges[i], AdjustedTarget(t))
        /\ resp[t].status = 422

\* C10: the target is value + table[fit] (fit defaulting to regular); the
\* unrounded target decides mode and range, the rounding to 2 decimals only
\* the reported target_measurement.
C10_UnroundedTargetDecides ==
    \A t \in Threads :
        (Answered(t) /\ resp[t].status = 200)
            => /\ resp[t].target \in Round2(AdjustedTarget(t))
               /\ (resp[t].mode = "in-range") = (Holders(t) # {})
               /\ (resp[t].mode = "closest") = (Holders(t) = {})
               /\ Holders(t) # {}
                    => resp[t].size = ChartRanges(t)[Lowest(Holders(t))].size
               /\ (Holders(t) = {} /\ ExplicitBounds(t))
                    => resp[t].size = ChartRanges(t)[Lowest(Nearest(t))].size

\* C10 witness: with no fit given, the target lies above a range's max by
\* less than 0.005, its rounding lies inside that range, and the answer is
\* "closest".
C10_Witness ==
    \E t \in Threads :
        /\ Answered(t) /\ resp[t].status = 200
        /\ fit[t] = "absent"
        /\ Holders(t) = {}
        /\ \E i \in 1..Len(ChartRanges(t)) :
               /\ ChartRanges(t)[i].hasMax
               /\ AdjustedTarget(t) - ChartRanges(t)[i].max \in 1..4
               /\ Contains(ChartRanges(t)[i], resp[t].target)
        /\ resp[t].target # AdjustedTarget(t)
        /\ resp[t].mode = "closest"

---------------------------------------------------------------------------
(* Vocabulary of the claims about get_size_chart *)

\* get_size_chart has returned to the handler of thread t
CallReturned(t) == pc[t] \in {"check", "done"} /\ ret[t].kind # "nocall"

EntriesFor(k) == {i \in 1..Len(cache) : cache[i].key = k}

\* C4: negative results are not cached: after a call for k returned NotFound,
\* a call that begins once the file of k is present and well-formed reads
\* the file and returns its chart.
C4_NegativeNotCached ==
    \A t \in Threads :
        (CallReturned(t) /\ prev[t].kind = "none" /\ fileAtCall[t].kind = "json")
            => /\ fromDisk[t]
               /\ ret[t].kind = "dict"
               /\ ret[t].doc = fileAtCall[t].doc

\* C5 as stated: once get_size_chart(k) has returned a chart, every later
\* call returns the same content without reading the file, after any number
\* of calls for other distinct keys.
C5_HeldForever ==
    \A t \in Threads :
        (CallReturned(t) /\ prev[t].kind = "dict")
            => ret[t] = prev[t] /\ ~fromDisk[t]

\* C5 amended: once get_size_chart(k) has cached a chart, every later call
\* for k that begins while fewer than maxsize = 128 other distinct keys have
\* been asked for since k's last use returns the same content without
\* reading the file, even if the file has changed.
C5_HeldUntilEvicted ==
    \A t \in Threads :
        (CallReturned(t) /\ prev[t].kind = "dict" /\ others[t] < maxsize)
            => ret[t] = prev[t] /\ ~fromDisk[t]

\* C5 witness: after maxsize - 1 other distinct keys and a rewrite of the
\* file, the call returned the chart loaded first, from the cache.
C5_Witness ==
    \E t \in Threads :
        /\ CallReturned(t) /\ prev[t].kind = "dict"
        /\ others[t] = maxsize - 1
        /\ files[key[t]].kind = "json" /\ files[key[t]].doc # prev[t].doc
        /\ ret[t] = prev[t] /\ ~fromDisk[t]

\* C9: with the files unchanged, callers racing on the first access to a key
\* all receive the content of its file, and the cache holds exactly one
\* entry for the key, equal to that content.
C9_RaceConsistent ==
    \A t \in Threads :
        CallReturned(t)
            => /\ \A u \in Threads : (CallReturned(u) /\ key[u] = key[t]) => ret[u] = ret[t]
               /\ files[key[t]].kind = "json"
                    => ret[t].kind = "dict" /\ ret[t].doc = files[key[t]].doc
               /\ Cardinality(EntriesFor(key[t])) = 1
               /\ \A i \in EntriesFor(key[t]) : cache[i].val = ret[t]

\* C9 witness: two threads both missed the cache for the same key, both
\* read its file, and both returned the same chart.
C9_Witness ==
    \E t, u \in Threads :
        /\ t # u /\ key[t] = key[u]
        /\ CallReturned(t) /\ CallReturned(u)
        /\ fromDisk[t] /\ fromDisk[u]
        /\ ret[t].kind = "dict" /\ ret[t] = ret[u]
        /\ Cardinality(EntriesFor(key[t])) = 1

====
